---- MODULE Spec2Model ----
(***************************************************************************)
(* The WhatsApp tool layer of universal_mcp_whatsapp: the WhatsappApp      *)
(* facade (app.py), its authentication gate and cached API key, and the    *)
(* bridge client functions (whatsapp.py).                                  *)
(*                                                                         *)
(* Python values are modelled as follows.  None is the string NoneVal;     *)
(* every argument and request parameter is a string, so that "is None"     *)
(* and truthiness are decided on strings.  A dict is a TLA+ record: the    *)
(* test  "k" in d  is  "k" \in DOMAIN d.  A value that the code passes     *)
(* through without looking at it carries its Python type in a field ty.    *)
(* A call is a record that walks through the handler's statements: pc is   *)
(* the statement the caller is at, net the HTTP requests it has sent.      *)
(***************************************************************************)
EXTENDS Naturals, Sequences, FiniteSets, TLC

VARIABLES
    integration,            \* WhatsappApp.integration: "none", "key" (client.api_key exists), "nokey"
    clientKey,              \* integration.client.api_key
    WHATSAPP_API_BASE_URL,  \* whatsapp.py: the base the bridge client addresses
    _api_key,               \* WhatsappApp._api_key, the cached key
    threads,                \* the callers that invoke the instance
    ncalls,                 \* calls started so far
    keyWrites,              \* assignments to self._api_key so far
    call                    \* per caller: the call in progress

vars == <<integration, clientKey, WHATSAPP_API_BASE_URL, _api_key, threads, ncalls, keyWrites, call>>

----------------------------------------------------------------------------
(* Bounds *)

MaxCalls == 2

Callers == {1, 2}

----------------------------------------------------------------------------
(* Python values *)

NoneVal == "<None>"

\* bool(v) of a str-or-None value
Truthy(v) == v # NoneVal /\ v # ""

Raise(exc, msg) == [kind |-> "raise", exc |-> exc, msg |-> msg]
Return(ty, val) == [kind |-> "return", ty |-> ty, val |-> val]
Pending == [kind |-> "pending"]

\* d.get(k, default)
Get(d, k, default) == IF k \in DOMAIN d THEN d[k] ELSE default

----------------------------------------------------------------------------
(* Configuration *)

DefaultBase == "http://localhost:8080"
BaseChoices == {DefaultBase, "http://bridge.example:9000"}
IntegrationChoices == {"none", "key", "nokey"}
KeyChoices == {"u1", ""}

\* WhatsappApp.__init__: self.base_url
base_url == DefaultBase

\* what integration.get_credentials() does in a call: returns, or raises with a text
CredChoices == {"ok", "Please authorize whatsapp at https://auth.example/whatsapp"}

\* what the bridge answers to POST /api/auth during a call
AuthReplies == {"connected", "qr_required", "other_status", "http_500", "not_json", "transport_error"}

----------------------------------------------------------------------------
(* Tool Facade surface *)

Tools == {"search_contacts", "list_messages", "list_chats", "get_chat",
          "get_direct_chat_by_contact", "get_contact_chats", "get_last_interaction",
          "get_message_context", "send_message", "send_file", "send_audio_message",
          "download_media"}

\* the method _authenticate_whatsapp, invoked on its own
AuthMethod == "_authenticate_whatsapp"

\* the "if x is None: raise ValueError" checks of each tool, in the order of the code
Required(op) ==
    CASE op = "search_contacts" -> <<"query">>
      [] op = "get_chat" -> <<"chat_jid">>
      [] op = "get_direct_chat_by_contact" -> <<"sender_phone_number">>
      [] op = "get_contact_chats" -> <<"jid">>
      [] op = "get_last_interaction" -> <<"jid">>
      [] op = "get_message_context" -> <<"message_id">>
      [] op = "send_message" -> <<"recipient", "message">>
      [] op = "send_file" -> <<"recipient", "media_path">>
      [] op = "send_audio_message" -> <<"recipient", "media_path">>
      [] op = "download_media" -> <<"message_id", "chat_jid">>
      [] OTHER -> <<>>

Opt(v) == {NoneVal, v}

\* the argument values a caller passes (defaults included)
ArgChoices(op) ==
    CASE op = "search_contacts" -> [query : Opt("bob")]
      [] op = "list_messages" ->
            [after : Opt("2024-01-01T00:00:00"), before : {NoneVal},
             sender_phone_number : {NoneVal}, chat_jid : Opt("1@s.whatsapp.net"),
             query : Opt("hi"), limit : {"20"}, page : {"0"},
             include_context : {"True"}, context_before : {"1"}, context_after : {"1"}]
      [] op = "list_chats" ->
            [query : Opt("bob"), limit : {"20"}, page : {"0"},
             include_last_message : {"True"}, sort_by : {"last_active"}]
      [] op = "get_chat" -> [chat_jid : Opt("1@s.whatsapp.net"), include_last_message : {"True"}]
      [] op = "get_direct_chat_by_contact" -> [sender_phone_number : Opt("1")]
      [] op = "get_contact_chats" -> [jid : Opt("1@s.whatsapp.net"), limit : {"20"}, page : {"0"}]
      [] op = "get_last_interaction" -> [jid : Opt("1@s.whatsapp.net")]
      [] op = "get_message_context" -> [message_id : Opt("m1"), before : {"5"}, after : {"5"}]
      [] op = "send_message" -> [recipient : Opt("1"), message : Opt("hello")]
      [] op = "send_file" -> [recipient : Opt("1"), media_path : Opt("/tmp/pic.png")]
      [] op = "send_audio_message" ->
            [recipient : Opt("1"), media_path : {NoneVal, "/tmp/voice.ogg", "/tmp/song.mp3"}]
      [] op = "download_media" -> [message_id : Opt("m1"), chat_jid : Opt("1@s.whatsapp.net")]
      [] OTHER -> {<<>>}

RECURSIVE FirstMissingFrom(_, _, _)
FirstMissingFrom(req, args, i) ==
    IF i > Len(req) THEN NoneVal
    ELSE IF args[req[i]] = NoneVal THEN req[i]
    ELSE FirstMissingFrom(req, args, i + 1)

\* a tool that checks only its first required parameter
FirstMissingOnlyFirst(op, args) ==
    IF Len(Required(op)) > 0 /\ args[Required(op)[1]] = NoneVal THEN Required(op)[1]
    ELSE NoneVal

\* the first required parameter that is None, NoneVal when there is none
FirstMissing(op, args) == FirstMissingFrom(Required(op), args, 1)

MissingError(p) == Raise("ValueError", "Missing required parameter '" \o p \o "'.")

----------------------------------------------------------------------------
(* A call *)

Idle == [pc |-> "idle", op |-> NoneVal, args |-> <<>>, authReply |-> NoneVal,
         gate |-> "none", site |-> NoneVal, user_id |-> NoneVal, media_path |-> NoneVal,
         net |-> <<>>, creds |-> 0, cred |-> NoneVal, keycalls |-> 0, conv |-> 0,
         convOut |-> NoneVal, convSent |-> 0, raw |-> [kind |-> "none"],
         result |-> [t |-> "none"], keyAtStart |-> NoneVal, outcome |-> Pending]

Finish(c, outcome) == [c EXCEPT !.pc = "done", !.outcome = outcome]

\* a tool that catches the gate's exception and goes on
GateRaisesSwallowed(c, outcome) ==
    [c EXCEPT !.gate = "raised", !.outcome = outcome, !.pc = "key_read", !.site = "tool"]

\* an exception leaves _authenticator: the gate has raised
GateRaises(c, outcome) == Finish([c EXCEPT !.gate = "raised"], outcome)

\* _authenticator returns True: the tool goes on to  user_id = self.api_key
GatePasses(c) == [c EXCEPT !.gate = "passed", !.pc = "key_read", !.site = "tool"]

----------------------------------------------------------------------------
(* Authentication Gate *)

\* qr_url = f"http://localhost:8080/api/qr?user_id={user_id}"
QrUrl(user_id) == "http://localhost:8080/api/qr?user_id=" \o user_id

AuthorizeMessage(url) ==
    "Please ask the user to visit the following url to authorize WhatsApp: "
        \o url \o ". Render the url in proper markdown format with a clickable link."

\* the text _authenticate_whatsapp returns when the user has to pair the device
QrMessage(user_id) == AuthorizeMessage(QrUrl(user_id))

NoKeyError == Raise("ValueError", "No API key available from integration")

AuthFailedMessage == "WhatsApp authentication failed. Please check your configuration."

\* a gate that takes the bridge-native flow whatever the integration
UsesBridgeAuthAlways == TRUE

\* _authenticator, "if not self.integration": the bridge-native flow is taken
UsesBridgeAuth == integration = "none"

\* get_api_key: the integration exposes client.api_key
ExposesKey == integration = "key"

\* _authenticator, the branch on auth_result (True, a str, anything else)
AuthenticatorResult(c, auth_result) ==
    IF auth_result.ty = "bool" /\ auth_result.val = TRUE THEN GatePasses(c)
    ELSE IF auth_result.ty = "str"
         THEN GateRaises(c, Raise("NotAuthorizedError", auth_result.val))
         ELSE GateRaises(c, Raise("NotAuthorizedError", AuthFailedMessage))

\* _authenticate_whatsapp returns auth_result: to _authenticator in a tool call,
\* to the caller when the method was invoked on its own
AuthReturns(c, auth_result) ==
    IF c.op = AuthMethod THEN Finish(c, auth_result)
    ELSE AuthenticatorResult(c, auth_result)

\* _authenticate_whatsapp, "except Exception": the handler reads self.api_key again
AuthHandler(c) == [c EXCEPT !.pc = "key_read", !.site = "aw_except"]

\* self.api_key has returned v at the place c.site
KeyReturned(c, v) ==
    CASE c.site = "aw_try" ->
            IF Truthy(v) THEN [c EXCEPT !.pc = "auth_post", !.user_id = v]
            ELSE AuthHandler(c)
      [] c.site = "aw_except" ->
            IF Truthy(v) THEN AuthReturns(c, Return("str", QrMessage(v)))
            ELSE AuthReturns(c, Return("bool", FALSE))
      [] OTHER -> [c EXCEPT !.pc = "op", !.user_id = v]

\* self.api_key has raised (get_api_key's ValueError) at the place c.site
KeyRaised(c) ==
    CASE c.site = "aw_try" -> AuthHandler(c)
      [] c.site = "aw_except" ->
            IF c.op = AuthMethod THEN Finish(c, NoKeyError) ELSE GateRaises(c, NoKeyError)
      [] OTHER -> Finish(c, NoKeyError)

\* a tool is called: its parameter checks
Invoke(t) ==
    /\ t \in threads
    /\ call[t].pc \in {"idle", "done"}
    /\ ncalls < MaxCalls
    /\ \E op \in Tools : \E args \in ArgChoices(op) : \E reply \in AuthReplies :
          LET c == [Idle EXCEPT !.op = op, !.args = args, !.authReply = reply,
                                !.media_path = Get(args, "media_path", NoneVal),
                                !.keyAtStart = _api_key]
              missing == FirstMissing(op, args)
          IN call' = [call EXCEPT ![t] =
                        IF missing # NoneVal THEN Finish(c, MissingError(missing))
                        ELSE [c EXCEPT !.pc = "gate"]]
    /\ ncalls' = ncalls + 1
    /\ UNCHANGED <<integration, clientKey, WHATSAPP_API_BASE_URL, _api_key, threads, keyWrites>>

\* _authenticate_whatsapp is called on its own.  A tool enters the method only
\* when self.integration is falsy, and then self.api_key raises before the POST;
\* its request and the handling of the bridge's answer are exercised by calling
\* the method on an instance whose integration exposes a key.
InvokeAuthenticate(t) ==
    /\ t \in threads
    /\ call[t].pc \in {"idle", "done"}
    /\ ncalls < MaxCalls
    /\ \E reply \in AuthReplies :
          call' = [call EXCEPT ![t] =
                     [Idle EXCEPT !.op = AuthMethod, !.authReply = reply,
                                  !.keyAtStart = _api_key,
                                  !.pc = "key_read", !.site = "aw_try"]]
    /\ ncalls' = ncalls + 1
    /\ UNCHANGED <<integration, clientKey, WHATSAPP_API_BASE_URL, _api_key, threads, keyWrites>>

\* _authenticator
Authenticator(t) ==
    /\ call[t].pc = "gate"
    /\ IF UsesBridgeAuth
       THEN call' = [call EXCEPT ![t] = [@ EXCEPT !.pc = "key_read", !.site = "aw_try"]]
       ELSE \E cred \in CredChoices :
               LET c == [call[t] EXCEPT !.creds = @ + 1, !.cred = cred]
               IN call' = [call EXCEPT ![t] =
                             IF cred = "ok" THEN GatePasses(c)
                             ELSE GateRaises(c, Raise("NotAuthorizedError", cred))]
    /\ UNCHANGED <<integration, clientKey, WHATSAPP_API_BASE_URL, _api_key, threads, ncalls, keyWrites>>

\* the property api_key: "if self._api_key: return self._api_key"
ApiKeyRead(t) ==
    /\ call[t].pc = "key_read"
    /\ call' = [call EXCEPT ![t] =
                  IF Truthy(_api_key) THEN KeyReturned(@, _api_key)
                  ELSE [@ EXCEPT !.pc = "key_get"]]
    /\ UNCHANGED <<integration, clientKey, WHATSAPP_API_BASE_URL, _api_key, threads, ncalls, keyWrites>>

\* the property api_key: "self._api_key = self.get_api_key(); return self._api_key"
GetApiKey(t) ==
    /\ call[t].pc = "key_get"
    /\ LET c == [call[t] EXCEPT !.keycalls = @ + 1]
       IN IF ExposesKey
          THEN /\ _api_key' = clientKey
               /\ keyWrites' = keyWrites + 1
               /\ call' = [call EXCEPT ![t] = KeyReturned(c, clientKey)]
          ELSE /\ _api_key' = _api_key
               /\ keyWrites' = keyWrites
               /\ call' = [call EXCEPT ![t] = KeyRaised(c)]
    /\ UNCHANGED <<integration, clientKey, WHATSAPP_API_BASE_URL, threads, ncalls>>

\* _authenticate_whatsapp: requests.post(auth_url, json={"user_id": user_id}, timeout=60)
AuthPost(t) ==
    /\ call[t].pc = "auth_post"
    /\ call' = [call EXCEPT ![t] =
                  [@ EXCEPT !.pc = "auth_wait",
                            !.net = Append(@, [method |-> "POST",
                                               url |-> base_url \o "/api/auth",
                                               data |-> [user_id |-> call[t].user_id],
                                               timeout |-> "60"])]]
    /\ UNCHANGED <<integration, clientKey, WHATSAPP_API_BASE_URL, _api_key, threads, ncalls, keyWrites>>

\* _authenticate_whatsapp: what it makes of the bridge's answer
AuthResult(c) ==
    CASE c.authReply = "connected" -> AuthReturns(c, Return("bool", TRUE))
      [] c.authReply = "qr_required" -> AuthReturns(c, Return("str", QrMessage(c.user_id)))
      [] c.authReply = "other_status" -> AuthReturns(c, Return("NoneType", NoneVal))
      [] c.authReply = "http_500" -> AuthReturns(c, Return("str", QrMessage(c.user_id)))
      [] OTHER -> AuthHandler(c)

AuthReply(t) ==
    /\ call[t].pc = "auth_wait"
    /\ call' = [call EXCEPT ![t] = AuthResult(@)]
    /\ UNCHANGED <<integration, clientKey, WHATSAPP_API_BASE_URL, _api_key, threads, ncalls, keyWrites>>


----------------------------------------------------------------------------
(* Bridge Client: requests *)

Endpoint(op) ==
    CASE op = "search_contacts" -> "contacts"
      [] op = "list_messages" -> "messages"
      [] op = "list_chats" -> "chats"
      [] op = "get_chat" -> "chat"
      [] op = "get_direct_chat_by_contact" -> "direct_chat"
      [] op = "get_contact_chats" -> "contact_chats"
      [] op = "get_last_interaction" -> "last_interaction"
      [] op = "get_message_context" -> "message_context"
      [] op = "download_media" -> "download"
      [] OTHER -> "send"

Method(op) ==
    IF op \in {"send_message", "send_file", "send_audio_message", "download_media"}
    THEN "POST" ELSE "GET"

\* a filter that keeps the None values
RemoveNoneKeepsAll(params) == params

\* {k: v for k, v in params.items() if v is not None}
RemoveNone(params) == [k \in {x \in DOMAIN params : params[x] # NoneVal} |-> params[k]]

\* d[k] = v
With(d, k, v) == [x \in DOMAIN d \cup {k} |-> IF x = k THEN v ELSE d[x]]

Only(d, keys) == [k \in keys |-> d[k]]

\* the dict each client function hands to _make_api_request
ClientData(c) ==
    CASE c.op = "list_messages" -> RemoveNone(c.args)
      [] c.op = "list_chats" -> RemoveNone(c.args)
      [] c.op = "send_message" -> With(c.args, "user_id", c.user_id)
      [] c.op = "send_file" -> With(c.args, "user_id", c.user_id)
      [] c.op = "send_audio_message" ->
            With(With(c.args, "media_path", c.media_path), "user_id", c.user_id)
      [] c.op = "download_media" -> With(c.args, "user_id", c.user_id)
      [] c.op = "search_contacts" -> Only(c.args, {"query"})
      [] c.op = "get_direct_chat_by_contact" -> Only(c.args, {"sender_phone_number"})
      [] c.op = "get_last_interaction" -> Only(c.args, {"jid"})
      [] OTHER -> c.args

\* _make_api_request: a GET carries user_id among its query parameters
ShapeData(method, data, user_id) ==
    IF method = "GET" /\ DOMAIN data # {} THEN With(data, "user_id", user_id)
    ELSE IF method = "GET" THEN [x \in {"user_id"} |-> user_id]
    ELSE data

\* the request _make_api_request sends for the call c
ApiRequest(c) ==
    [method |-> Method(c.op),
     url |-> WHATSAPP_API_BASE_URL \o "/api/" \o Endpoint(c.op),
     data |-> ShapeData(Method(c.op), ClientData(c), c.user_id),
     timeout |-> "30"]

\* media_path.endswith(".ogg"), over the stems of the paths a caller passes
Stems == {"/tmp/voice", "/tmp/song.mp3", "/tmp/opus", "/tmp/song"}
EndsWithOgg(path) == \E stem \in Stems : path = stem \o ".ogg"

\* audio.convert_to_opus_ogg_temp: the path of the converted file, or a failure
ConvertChoices == {"/tmp/opus.ogg", "<ffmpeg not found>"}

\* a send_audio_message that never converts
NeedsConvertNever(c) == FALSE

\* if not media_path.endswith(".ogg")
NeedsConvert(c) == c.op = "send_audio_message" /\ ~EndsWithOgg(c.media_path)

ConvertError(cause) ==
    "Error converting file to opus ogg. You likely need to install ffmpeg: " \o cause

----------------------------------------------------------------------------
(* Bridge Client: responses *)

Str(s) == [ty |-> "str", val |-> s]
Bool(b) == [ty |-> "bool", val |-> b]
Obj(o) == [t |-> "object", o |-> o]
InvalidJson == [t |-> "invalid"]

ContactA == [phone_number |-> "1", name |-> "Bob", jid |-> "1@s.whatsapp.net"]
ContactBad == [name |-> "Bob"]
ChatA == [jid |-> "1@s.whatsapp.net", name |-> "Bob",
          last_message_time |-> "2024-01-01T10:00:00", last_message |-> "hi",
          last_sender |-> "1", last_is_from_me |-> "False"]
ChatB == [jid |-> "2@g.us", last_message_time |-> NoneVal]
ChatBad == [name |-> "Bob"]

\* the JSON objects the bridge answers with HTTP 200, per endpoint
Payloads(endpoint) ==
    {[error |-> "user not connected"], [status |-> "ok"]} \cup
    CASE endpoint = "contacts" -> {[contacts |-> <<ContactA>>], [contacts |-> <<ContactBad>>]}
      [] endpoint \in {"chats", "contact_chats"} ->
            {[chats |-> <<ChatA, ChatB>>], [chats |-> <<ChatBad>>]}
      [] endpoint \in {"chat", "direct_chat"} -> {[chat |-> ChatA], [chat |-> ChatBad]}
      [] endpoint = "last_interaction" -> {[message |-> Str("Bob: hi")]}
      [] endpoint = "messages" -> {[messages |-> Str("[2024-01-01 10:00:00] From: Bob: hi")]}
      [] endpoint = "message_context" -> {[message |-> Str("hi")]}
      [] endpoint = "send" ->
            {[success |-> Bool(TRUE), message |-> Str("Message sent")],
             [success |-> Bool(FALSE), message |-> Str("recipient not found")]}
      [] OTHER ->
            {[success |-> Bool(TRUE), path |-> "/store/m1.jpg", message |-> Str("ok")],
             [success |-> Bool(TRUE), path |-> ""],
             [success |-> Bool(TRUE)],
             [success |-> Bool(FALSE), message |-> Str("media not found")]}

\* what happens to the HTTP request: an exception of requests, or a response
RawChoices(endpoint) ==
    {[kind |-> "exc", status |-> "", text |-> "Connection refused", json |-> InvalidJson],
     [kind |-> "http", status |-> "500", text |-> "Internal Server Error", json |-> InvalidJson],
     [kind |-> "http", status |-> "200", text |-> "<html>", json |-> InvalidJson],
     [kind |-> "http", status |-> "200", text |-> "[]", json |-> [t |-> "array"]]}
    \cup {[kind |-> "http", status |-> "200", text |-> "{...}", json |-> Obj(o)] :
              o \in Payloads(endpoint)}

ErrorValue(s) == Obj([error |-> s])

DecodeMessage == "Expecting value: line 1 column 1 (char 0)"

\* _make_api_request: the dict it returns for what happened to the request.
\* response.json() raises a JSONDecodeError that, depending on the requests
\* release installed, is a requests.RequestException (first handler) or only a
\* json.JSONDecodeError (second handler): decodeIsRequestException.
MakeApiRequest(raw, decodeIsRequestException) ==
    IF raw.kind = "exc" THEN ErrorValue("Request failed: " \o raw.text)
    ELSE IF raw.status = "200"
         THEN IF raw.json.t = "invalid"
              THEN IF decodeIsRequestException
                   THEN ErrorValue("Request failed: " \o DecodeMessage)
                   ELSE ErrorValue("Invalid JSON response: " \o raw.text)
              ELSE raw.json
         ELSE ErrorValue("HTTP " \o raw.status \o ": " \o raw.text)

\* "error" in result
HasError(result) == result.t = "object" /\ "error" \in DOMAIN result.o

\* result.get(...) on a JSON array
NotADict == Raise("AttributeError", "'list' object has no attribute 'get'")


----------------------------------------------------------------------------
(* Bridge Client: what each function returns *)

\* Contact(phone_number=d["phone_number"], name=d.get("name"), jid=d["jid"])
ContactOf(d) == [phone_number |-> d.phone_number, name |-> Get(d, "name", NoneVal),
                 jid |-> d.jid]

\* Chat(jid=d["jid"], name=d.get("name"), last_message_time=..., ...)
ChatOf(d) ==
    [jid |-> d.jid, name |-> Get(d, "name", NoneVal),
     last_message_time |->
        IF Truthy(Get(d, "last_message_time", NoneVal))
        THEN [ty |-> "datetime", iso |-> d.last_message_time]
        ELSE [ty |-> "NoneType"],
     last_message |-> Get(d, "last_message", NoneVal),
     last_sender |-> Get(d, "last_sender", NoneVal),
     last_is_from_me |-> Get(d, "last_is_from_me", NoneVal)]

KeyError(k) == Raise("KeyError", k)

\* the loops of search_contacts, list_chats and get_contact_chats
ContactList(data) ==
    IF \E i \in 1..Len(data) : "phone_number" \notin DOMAIN data[i]
    THEN KeyError("phone_number")
    ELSE IF \E i \in 1..Len(data) : "jid" \notin DOMAIN data[i] THEN KeyError("jid")
    ELSE Return("list", [i \in 1..Len(data) |-> ContactOf(data[i])])

ChatList(data) ==
    IF \E i \in 1..Len(data) : "jid" \notin DOMAIN data[i] THEN KeyError("jid")
    ELSE Return("list", [i \in 1..Len(data) |-> ChatOf(data[i])])

\* get_chat, get_direct_chat_by_contact: chat_data = result.get("chat")
ChatRecord(o) ==
    IF "chat" \notin DOMAIN o THEN Return("NoneType", NoneVal)
    ELSE IF "jid" \notin DOMAIN o.chat THEN KeyError("jid")
    ELSE Return("Chat", ChatOf(o.chat))

\* send_message, send_file, send_audio_message: the pair (success, message)
SendPair(success, message) == Return("tuple", [success |-> success, message |-> message])

\* search_contacts, after _make_api_request has returned result
SearchContactsResult(result) ==
    IF HasError(result) THEN Return("list", <<>>)
    ELSE IF result.t # "object" THEN NotADict
    ELSE ContactList(Get(result.o, "contacts", <<>>))

\* list_chats and get_contact_chats
ListChatsResult(result) ==
    IF HasError(result) THEN Return("list", <<>>)
    ELSE IF result.t # "object" THEN NotADict
    ELSE ChatList(Get(result.o, "chats", <<>>))

\* list_messages
ListMessagesResult(result) ==
    IF HasError(result) THEN Return("str", "Error retrieving messages: " \o result.o.error)
    ELSE IF result.t # "object" THEN NotADict
    ELSE Get(result.o, "messages", Str("No messages found")) @@ [kind |-> "return"]

\* get_last_interaction
GetLastInteractionResult(result) ==
    IF HasError(result)
    THEN Return("str", "Error getting last interaction: " \o result.o.error)
    ELSE IF result.t # "object" THEN NotADict
    ELSE Get(result.o, "message", Str("No interaction found")) @@ [kind |-> "return"]

\* get_chat and get_direct_chat_by_contact
GetChatResult(result) ==
    IF HasError(result) THEN Return("NoneType", NoneVal)
    ELSE IF result.t # "object" THEN NotADict
    ELSE ChatRecord(result.o)

\* a get_message_context that fails soft, as get_chat does
GetMessageContextSoft(result) ==
    IF HasError(result) THEN Return("NoneType", NoneVal)
    ELSE Raise("NotImplementedError", "Message context API not yet implemented in bridge")

\* get_message_context
GetMessageContextResult(result) ==
    IF HasError(result)
    THEN Raise("ValueError", "Error getting message context: " \o result.o.error)
    ELSE Raise("NotImplementedError", "Message context API not yet implemented in bridge")

\* a send that reads success and message without looking for "error" first
SendResultUnchecked(result) ==
    IF result.t # "object" THEN NotADict
    ELSE SendPair(Get(result.o, "success", Bool(FALSE)),
                  Get(result.o, "message", Str("Unknown response")))

\* send_message, send_file and send_audio_message
SendResult(result) ==
    IF HasError(result) THEN SendPair(Bool(FALSE), Str(result.o.error))
    ELSE IF result.t # "object" THEN NotADict
    ELSE SendPair(Get(result.o, "success", Bool(FALSE)),
                  Get(result.o, "message", Str("Unknown response")))

\* download_media
DownloadMediaResult(result) ==
    IF HasError(result) THEN Return("NoneType", NoneVal)
    ELSE IF result.t # "object" THEN NotADict
    ELSE IF Get(result.o, "success", Bool(FALSE)).val
         THEN IF "path" \in DOMAIN result.o THEN Return("str", result.o.path)
              ELSE Return("NoneType", NoneVal)
         ELSE Return("NoneType", NoneVal)

\* the client function a tool delegates to
ClientResult(op, result) ==
    CASE op = "search_contacts" -> SearchContactsResult(result)
      [] op \in {"list_chats", "get_contact_chats"} -> ListChatsResult(result)
      [] op = "list_messages" -> ListMessagesResult(result)
      [] op = "get_last_interaction" -> GetLastInteractionResult(result)
      [] op \in {"get_chat", "get_direct_chat_by_contact"} -> GetChatResult(result)
      [] op = "get_message_context" -> GetMessageContextResult(result)
      [] op = "download_media" -> DownloadMediaResult(result)
      [] OTHER -> SendResult(result)

----------------------------------------------------------------------------
(* Tool Facade: what each tool makes of the client function's outcome *)

SendDict(pair) == Return("dict", [success |-> pair.success, message |-> pair.message])

\* a download_media that tests "file_path is not None"
DownloadDictNotNone(file_path) ==
    IF file_path # NoneVal
    THEN Return("dict", [success |-> Bool(TRUE),
                         message |-> Str("Media downloaded successfully"),
                         file_path |-> file_path])
    ELSE Return("dict", [success |-> Bool(FALSE), message |-> Str("Failed to download media")])

DownloadDict(file_path) ==
    IF Truthy(file_path)
    THEN Return("dict", [success |-> Bool(TRUE),
                         message |-> Str("Media downloaded successfully"),
                         file_path |-> file_path])
    ELSE Return("dict", [success |-> Bool(FALSE), message |-> Str("Failed to download media")])

ToolResult(op, r) ==
    IF r.kind = "raise" THEN r
    ELSE IF op \in {"send_message", "send_file", "send_audio_message"} THEN SendDict(r.val)
    ELSE IF op = "download_media" THEN DownloadDict(r.val)
    ELSE r

----------------------------------------------------------------------------
(* Bridge Client: steps *)

\* send_audio_message: audio.convert_to_opus_ogg_temp(media_path)
Convert(t) ==
    /\ call[t].pc = "op"
    /\ NeedsConvert(call[t])
    /\ \E out \in ConvertChoices :
          LET c == [call[t] EXCEPT !.conv = @ + 1, !.convOut = out,
                                   !.convSent = Len(call[t].net)]
          IN call' = [call EXCEPT ![t] =
                        IF EndsWithOgg(out) THEN [c EXCEPT !.media_path = out]
                        ELSE Finish(c, ToolResult(c.op,
                                 SendPair(Bool(FALSE), Str(ConvertError(out)))))]
    /\ UNCHANGED <<integration, clientKey, WHATSAPP_API_BASE_URL, _api_key, threads, ncalls, keyWrites>>

\* a helper that sends every request a second time
BridgeRequestTwice(t) ==
    /\ call[t].pc = "op"
    /\ ~NeedsConvert(call[t])
    /\ call' = [call EXCEPT ![t] =
                  [@ EXCEPT !.pc = "op_wait",
                            !.net = Append(Append(@, ApiRequest(call[t])), ApiRequest(call[t]))]]
    /\ UNCHANGED <<integration, clientKey, WHATSAPP_API_BASE_URL, _api_key, threads, ncalls, keyWrites>>

\* _make_api_request: requests.get(url, params=data, timeout=30) or requests.post(url, json=data, timeout=30)
BridgeRequest(t) ==
    /\ call[t].pc = "op"
    /\ ~NeedsConvert(call[t])
    /\ call' = [call EXCEPT ![t] =
                  [@ EXCEPT !.pc = "op_wait", !.net = Append(@, ApiRequest(call[t]))]]
    /\ UNCHANGED <<integration, clientKey, WHATSAPP_API_BASE_URL, _api_key, threads, ncalls, keyWrites>>

\* the request ends; the client function and the tool return
BridgeReply(t) ==
    /\ call[t].pc = "op_wait"
    /\ \E raw \in RawChoices(Endpoint(call[t].op)) : \E decodeIsRequestException \in BOOLEAN :
          LET result == MakeApiRequest(raw, decodeIsRequestException)
          IN call' = [call EXCEPT ![t] =
                        Finish([@ EXCEPT !.raw = raw, !.result = result],
                               ToolResult(call[t].op, ClientResult(call[t].op, result)))]
    /\ UNCHANGED <<integration, clientKey, WHATSAPP_API_BASE_URL, _api_key, threads, ncalls, keyWrites>>

----------------------------------------------------------------------------
(* Specification *)

\* WhatsappApp.__init__, in each configuration the server can build it in
InitConfig ==
    /\ integration \in IntegrationChoices
    /\ clientKey \in (IF integration = "key" THEN KeyChoices ELSE {NoneVal})
    /\ WHATSAPP_API_BASE_URL \in BaseChoices
    /\ _api_key = NoneVal
    /\ ncalls = 0
    /\ keyWrites = 0
    /\ call = [t \in Callers |-> Idle]

Init == InitConfig /\ threads = {1}

Step(t) ==
    \/ Invoke(t)
    \/ InvokeAuthenticate(t)
    \/ Authenticator(t)
    \/ ApiKeyRead(t)
    \/ GetApiKey(t)
    \/ AuthPost(t)
    \/ AuthReply(t)
    \/ Convert(t)
    \/ BridgeRequest(t)
    \/ BridgeReply(t)

Next == \E t \in Callers : Step(t)

Spec == Init /\ [][Next]_vars

\* two threads share one WhatsappApp whose integration exposes the key "u1":
\* the first calls of both may overlap
InitConcurrent ==
    /\ InitConfig
    /\ integration = "key" /\ clientKey = "u1"
    /\ threads = Callers

\* the tools the two threads call
ConcurrentTools == {"search_contacts", "send_audio_message", "download_media"}

InvokeConcurrent(t) ==
    /\ Invoke(t)
    /\ call'[t].op \in ConcurrentTools
    /\ call'[t].authReply = "connected"

StepConcurrent(t) ==
    \/ InvokeConcurrent(t)
    \/ InvokeAuthenticate(t)
    \/ Authenticator(t)
    \/ ApiKeyRead(t)
    \/ GetApiKey(t)
    \/ AuthPost(t)
    \/ AuthReply(t)
    \/ Convert(t)
    \/ BridgeRequest(t)
    \/ BridgeReply(t)

NextConcurrent == \E t \in Callers : StepConcurrent(t)

SpecConcurrent == InitConcurrent /\ [][NextConcurrent]_vars


----------------------------------------------------------------------------
(* Properties *)

IsAuthRequest(r) == r.url = base_url \o "/api/auth"

IsOpRequest(r) == \E op \in Tools : r.url = WHATSAPP_API_BASE_URL \o "/api/" \o Endpoint(op)

SentOp(c) == \E i \in 1..Len(c.net) : IsOpRequest(c.net[i])

SentAuth(c) == \E i \in 1..Len(c.net) : IsAuthRequest(c.net[i]) /\ c.net[i].method = "POST"

ToolCall(c) == c.op \in Tools

MissesRequired(c) == \E i \in 1..Len(Required(c.op)) : c.args[Required(c.op)[i]] = NoneVal

ValidCall(c) == ToolCall(c) /\ ~MissesRequired(c)

Raised(c, exc) == c.pc = "done" /\ c.outcome.kind = "raise" /\ c.outcome.exc = exc

\* the call has got past the gate and the key resolution, into the client function
InClient(c) == c.pc \in {"op", "op_wait"} \/ c.conv > 0 \/ SentOp(c)

\* C1: in every call of a tool the gate has run, and has returned success, before
\* the bridge operation request is sent; a call whose gate raised sends no
\* operation request.
C1_GateBeforeOperation ==
    \A t \in Callers :
        LET c == call[t]
        IN ToolCall(c) =>
              /\ SentOp(c) => c.gate = "passed"
              /\ c.gate = "raised" => ~SentOp(c) /\ c.pc = "done"

C1_Witness ==
    \E t \in Callers :
        LET c == call[t]
        IN ToolCall(c) /\ c.pc = "done" /\ c.gate = "passed" /\ SentOp(c)
           /\ c.op = "send_message"

\* C2: a call of a tool in which a required argument is None ends at once with
\* the parameter-missing error: get_credentials is not called, the key is not
\* resolved, no request is sent and the cached key is what it was.
C2_MissingParameterBeforeNetwork ==
    \A t \in Callers :
        LET c == call[t]
        IN ToolCall(c) /\ MissesRequired(c) =>
              /\ c.pc = "done"
              /\ c.outcome = MissingError(FirstMissingFrom(Required(c.op), c.args, 1))
              /\ c.net = <<>>
              /\ c.creds = 0
              /\ c.keycalls = 0
              /\ _api_key = c.keyAtStart

C2_Witness ==
    \E t \in Callers :
        LET c == call[t]
        IN /\ c.op = "send_message"
           /\ c.args.recipient # NoneVal
           /\ c.args.message = NoneVal
           /\ c.pc = "done"
           /\ c.outcome = MissingError("message")

\* C3: a call with valid arguments that does not get past the gate and the key
\* resolution ends with NotAuthorizedError, whatever the configuration and the
\* bridge's answer.
C3_GateSuccessOrNotAuthorized ==
    \A t \in Callers :
        LET c == call[t]
        IN ValidCall(c) /\ c.pc = "done" /\ ~InClient(c) => Raised(c, "NotAuthorizedError")

\* C4: without an integration, a call made while the bridge answers the auth
\* check with status "connected" passes the gate and reaches the client function.
C4_NoIntegrationConnectedProceeds ==
    \A t \in Callers :
        LET c == call[t]
        IN ValidCall(c) /\ integration = "none" /\ c.authReply = "connected" /\ c.pc = "done"
              => c.gate = "passed" /\ InClient(c)

\* C5: when the auth check answers "qr_required" for the key k, the call ends with
\* the text that carries <base>/api/qr?user_id=k, where <base> is the base the
\* auth check was sent to and the bridge operations are sent to.
C5_QrUrlAtBridgeBase ==
    \A t \in Callers :
        LET c == call[t]
            expected == AuthorizeMessage(WHATSAPP_API_BASE_URL \o "/api/qr?user_id=" \o c.user_id)
        IN c.pc = "done" /\ SentAuth(c) /\ c.authReply = "qr_required" =>
              /\ c.net[1].url = WHATSAPP_API_BASE_URL \o "/api/auth"
              /\ \/ c.outcome = Raise("NotAuthorizedError", expected)
                 \/ c.outcome = Return("str", expected)

\* C6: with an integration configured, a tool call sends no request to /api/auth,
\* and when get_credentials raises the call ends with NotAuthorizedError carrying
\* that exception's text, without any request.
C6_IntegrationBypassesBridgeAuth ==
    \A t \in Callers :
        LET c == call[t]
        IN ToolCall(c) /\ integration # "none" =>
              /\ ~SentAuth(c)
              /\ c.cred \notin {NoneVal, "ok"} =>
                    /\ c.pc = "done"
                    /\ c.outcome = Raise("NotAuthorizedError", c.cred)
                    /\ c.net = <<>>

C6_Witness ==
    \E t \in Callers :
        LET c == call[t]
        IN /\ ToolCall(c) /\ integration = "key" /\ c.pc = "done"
           /\ c.cred \notin {NoneVal, "ok"}
           /\ c.outcome.kind = "raise"

\* C7: without an integration the gate passes only when the auth check was sent
\* and answered "connected"; on every other answer the call ends with
\* NotAuthorizedError and sends no operation request.
C7_BridgeGateFailsClosed ==
    \A t \in Callers :
        LET c == call[t]
        IN ValidCall(c) /\ integration = "none" /\ c.pc = "done" =>
              /\ c.gate = "passed" => SentAuth(c) /\ c.authReply = "connected"
              /\ c.authReply # "connected" => Raised(c, "NotAuthorizedError") /\ ~SentOp(c)

ListTools == {"search_contacts", "list_chats", "get_contact_chats", "list_messages"}

\* C8: a list tool whose bridge request yields an error value returns the empty list.
C8_ListErrorYieldsEmpty ==
    \A t \in Callers :
        LET c == call[t]
        IN c.op \in ListTools /\ c.pc = "done" /\ HasError(c.result)
              => c.outcome = Return("list", <<>>)

SingleReadTools == {"get_chat", "get_direct_chat_by_contact", "get_last_interaction"}

\* C9: a single-entity read whose bridge request yields an error value returns
\* None: neither an error text nor an exception.
C9_SingleReadErrorYieldsAbsent ==
    \A t \in Callers :
        LET c == call[t]
        IN c.op \in SingleReadTools /\ c.pc = "done" /\ HasError(c.result)
              => c.outcome = Return("NoneType", NoneVal)

\* C10: every call of get_message_context that has ended has raised, whatever
\* the arguments, the gate's outcome and the bridge's response.
C10_MessageContextAlwaysRaises ==
    \A t \in Callers :
        LET c == call[t]
        IN c.op = "get_message_context" /\ c.pc = "done" => c.outcome.kind = "raise"

C10_Witness ==
    \E t \in Callers :
        LET c == call[t]
        IN /\ c.op = "get_message_context" /\ c.pc = "done"
           /\ c.result.t = "object" /\ ~HasError(c.result)
           /\ c.outcome.kind = "raise" /\ c.outcome.exc = "NotImplementedError"


SendTools == {"send_message", "send_file", "send_audio_message"}

FailedDict(message) == Return("dict", [success |-> Bool(FALSE), message |-> Str(message)])

\* C11 as claimed: a send tool or download_media whose bridge request yields the
\* error value {error: e} returns {success: False, message: e}.
C11_WriteErrorVerbatim ==
    \A t \in Callers :
        LET c == call[t]
        IN c.op \in SendTools \cup {"download_media"} /\ c.pc = "done" /\ HasError(c.result)
              => c.outcome = FailedDict(c.result.o.error)

\* C11 as amended: send_message, send_file and send_audio_message return
\* {success: False, message: e} for the error value {error: e}; download_media
\* returns {success: False, message: "Failed to download media"}; none raises.
C11_WriteErrorStructured ==
    \A t \in Callers :
        LET c == call[t]
        IN c.pc = "done" /\ HasError(c.result) =>
              /\ c.op \in SendTools => c.outcome = FailedDict(c.result.o.error)
              /\ c.op = "download_media" => c.outcome = FailedDict("Failed to download media")

C11_Witness ==
    \E t \in Callers :
        LET c == call[t]
        IN /\ c.op = "send_file" /\ c.pc = "done"
           /\ c.raw.kind = "http" /\ c.raw.status = "500"
           /\ c.outcome = FailedDict("HTTP 500: Internal Server Error")

\* C12: for a dict answer of the bridge, download_media returns {success: True,
\* message, file_path: p} exactly when the answer is no error value and has a true
\* success and a non-empty path p; otherwise it returns {success: False,
\* message: "Failed to download media"} without file_path.
C12_DownloadResult ==
    \A t \in Callers :
        LET c == call[t]
            o == c.result.o
            good == /\ "error" \notin DOMAIN o
                    /\ "success" \in DOMAIN o /\ o.success.val = TRUE
                    /\ "path" \in DOMAIN o /\ o.path # ""
        IN c.op = "download_media" /\ c.pc = "done" /\ c.result.t = "object" =>
              IF good
              THEN /\ c.outcome.kind = "return" /\ c.outcome.ty = "dict"
                   /\ DOMAIN c.outcome.val = {"success", "message", "file_path"}
                   /\ c.outcome.val.success = Bool(TRUE)
                   /\ c.outcome.val.file_path = o.path
              ELSE c.outcome = FailedDict("Failed to download media")

C12_Witness ==
    \E t \in Callers :
        LET c == call[t]
        IN /\ c.op = "download_media" /\ c.pc = "done" /\ c.result.t = "object"
           /\ "path" \in DOMAIN c.result.o /\ c.result.o.path = "/store/m1.jpg"
           /\ c.outcome.kind = "return" /\ "file_path" \in DOMAIN c.outcome.val


OpRequests(c) == {i \in 1..Len(c.net) : IsOpRequest(c.net[i])}

\* C13: send_audio_message with a path ending in ".ogg" never calls the converter
\* and sends the path as given; with any other path the converter runs exactly
\* once, after the gate has passed and before the operation request, which then
\* carries the converted path; a failed conversion returns {success: False,
\* message: "Error converting file ..."} and no operation request is sent.
C13_AudioConversion ==
    \A t \in Callers :
        LET c == call[t]
            given == Get(c.args, "media_path", NoneVal)
        IN c.op = "send_audio_message" =>
              /\ EndsWithOgg(given) =>
                    /\ c.conv = 0
                    /\ \A i \in OpRequests(c) : c.net[i].data.media_path = given
              /\ ~EndsWithOgg(given) =>
                    /\ c.conv <= 1
                    /\ c.conv = 1 => c.gate = "passed" /\ c.convSent = 0
                    /\ SentOp(c) => c.conv = 1 /\ EndsWithOgg(c.convOut)
                    /\ \A i \in OpRequests(c) : c.net[i].data.media_path = c.convOut
                    /\ c.conv = 1 /\ ~EndsWithOgg(c.convOut) =>
                          /\ c.pc = "done" /\ ~SentOp(c)
                          /\ c.outcome = FailedDict(ConvertError(c.convOut))

C13_Witness ==
    \E t \in Callers :
        LET c == call[t]
        IN /\ c.op = "send_audio_message" /\ c.args.media_path = "/tmp/song.mp3"
           /\ c.conv = 1 /\ SentOp(c) /\ c.pc = "done"
           /\ c.net[Len(c.net)].data.media_path = "/tmp/opus.ogg"


\* C14: the cached API key is written at most once, over any sequence of tool
\* calls and any interleaving of two concurrent first calls.
C14_KeyWrittenAtMostOnce ==
    (\A t \in Callers : call[t].pc = "idle" \/ ToolCall(call[t])) => keyWrites <= 1


\* the authorization check of the call c reports not-authorized: get_credentials
\* failed, or (no integration) the bridge is at status "qr_required"
ReportsNotAuthorized(c) ==
    \/ integration # "none" /\ c.cred \notin {NoneVal, "ok"}
    \/ integration = "none" /\ c.authReply = "qr_required"

\* C15: authorization status is not carried over between calls: every call with
\* valid arguments runs the authorization check again, whatever the calls before
\* it did, and a call whose check reports not-authorized ends with
\* NotAuthorizedError and sends no operation request.
C15_AuthorizationNotCached ==
    \A t \in Callers :
        LET c == call[t]
        IN ValidCall(c) /\ c.pc = "done" =>
              /\ c.creds = 1 \/ SentAuth(c)
              /\ ReportsNotAuthorized(c) => Raised(c, "NotAuthorizedError") /\ ~SentOp(c)


\* C16: _make_api_request reports every failure as an error value: a status other
\* than 200 as "HTTP <status>: <body>", a connection or timeout failure as
\* "Request failed: <cause>", a 200 body that is not JSON as
\* "Invalid JSON response: <body>".
C16_RequestFailuresAsValues ==
    \A t \in Callers :
        LET c == call[t]
            raw == c.raw
        IN raw.kind # "none" =>
              /\ raw.kind = "exc" => c.result = ErrorValue("Request failed: " \o raw.text)
              /\ raw.kind = "http" /\ raw.status # "200" =>
                    c.result = ErrorValue("HTTP " \o raw.status \o ": " \o raw.text)
              /\ raw.kind = "http" /\ raw.status = "200" /\ raw.json.t = "invalid" =>
                    c.result = ErrorValue("Invalid JSON response: " \o raw.text)


AuthRequests(c) == {i \in 1..Len(c.net) : IsAuthRequest(c.net[i])}

\* C17: a call makes at most one authorization check (get_credentials, or the
\* bridge's auth request) and after it at most one operation request, two round
\* trips at most; a request that failed or timed out is not sent again.
C17_AtMostTwoRoundTrips ==
    \A t \in Callers :
        LET c == call[t]
        IN /\ Len(c.net) <= 2
           /\ \A i \in 1..Len(c.net) : IsAuthRequest(c.net[i]) \/ IsOpRequest(c.net[i])
           /\ c.creds + Cardinality(AuthRequests(c)) <= 1
           /\ Cardinality(OpRequests(c)) <= 1
           /\ \A i \in AuthRequests(c) : \A j \in OpRequests(c) : i < j
           /\ c.creds = 0 /\ AuthRequests(c) = {} => OpRequests(c) = {}
           /\ c.pc = "done" /\ HasError(c.result) => Cardinality(OpRequests(c)) = 1

C17_Witness ==
    \E t \in Callers :
        LET c == call[t]
        IN /\ ToolCall(c) /\ c.pc = "done" /\ c.creds = 1
           /\ c.raw.kind = "exc" /\ HasError(c.result)
           /\ Len(c.net) = 1 /\ IsOpRequest(c.net[1])


\* user_id: str = "default_user", the default of every client function
DefaultUser == "default_user"

\* C18: the operation request of a tool call is a GET whose query parameters are
\* exactly user_id and the tool's arguments that are not None, or (send tools,
\* download_media) a POST whose JSON body is the whole payload with user_id; the
\* user_id is the instance's resolved API key, the one an auth request of the
\* same call carries, and never "default_user".
C18_RequestShaping ==
    \A t \in Callers :
        LET c == call[t]
            given == {k \in DOMAIN c.args : c.args[k] # NoneVal}
        IN /\ \A i \in OpRequests(c) :
                 LET r == c.net[i]
                 IN /\ r.url = WHATSAPP_API_BASE_URL \o "/api/" \o Endpoint(c.op)
                    /\ r.method = (IF c.op \in SendTools \cup {"download_media"}
                                   THEN "POST" ELSE "GET")
                    /\ r.method = "GET" =>
                          /\ DOMAIN r.data = given \cup {"user_id"}
                          /\ \A k \in given : r.data[k] = c.args[k]
                    /\ r.method = "POST" =>
                          /\ DOMAIN r.data = DOMAIN c.args \cup {"user_id"}
                          /\ \A k \in DOMAIN c.args \ {"media_path"} : r.data[k] = c.args[k]
                          /\ c.op = "send_file" => r.data.media_path = c.args.media_path
                    /\ r.data.user_id = clientKey /\ r.data.user_id = _api_key
                    /\ r.data.user_id # DefaultUser
           /\ \A i \in AuthRequests(c) : c.net[i].data = [user_id |-> clientKey]

C18_Witness ==
    \E t \in Callers :
        LET c == call[t]
        IN /\ c.op = "list_messages" /\ c.args.query = NoneVal /\ c.args.chat_jid # NoneVal
           /\ OpRequests(c) = {1}
           /\ "query" \notin DOMAIN c.net[1].data
           /\ c.net[1].data.chat_jid = c.args.chat_jid
           /\ c.net[1].data.user_id = "u1"


====
